---------------------------- MODULE Spec2Model ----------------------------
(***************************************************************************)
(* Model of klusta/traces/waveform.py: the padding utility _get_padded,    *)
(* the WaveformExtractor pipeline and the WaveformLoader.                  *)
(*                                                                         *)
(* A 2D numpy array is a record [rows, ncols]: rows is the sequence of its *)
(* rows (index 0 of the array is rows[1]) and ncols its width, which an    *)
(* array with no rows still has.  Python exceptions are a status string.   *)
(***************************************************************************)
EXTENDS Integers, Sequences, FiniteSets, TLC

VARIABLES
    \* one call of _get_padded: its arguments and what it returned
    gp_pc, gp_data, gp_start, gp_end, gp_ret,
    \* a WaveformExtractor (we_self), the arguments of one __call__ and
    \* what the call produced
    we_pc, we_self, we_component, we_data, we_data_t, we_ret,
    \* a WaveformLoader (wl_self), its last call (_load_at or __getitem__
    \* with the argument) and what that call produced
    wl_self, wl_call, wl_ret

gp_vars == <<gp_pc, gp_data, gp_start, gp_end, gp_ret>>
we_vars == <<we_pc, we_self, we_component, we_data, we_data_t, we_ret>>
wl_vars == <<wl_self, wl_call, wl_ret>>
vars == <<gp_vars, we_vars, wl_vars>>

---------------------------------------------------------------------------
(* Bounds of the model. *)

\* longest array handed to _get_padded
MaxLen == 3
\* how far start and end may lie outside the array
MaxOut == 2
\* number of samples of the raw and filtered traces given to the extractor
NSamples == 4
\* most (sample, channel) pairs in a component
MaxComp == 2
\* longest trace buffer given to the loader
MaxTrace == 4
\* most samples before, and after, the time in the loader's window
MaxWindow == 2
\* most times in one batch request
MaxItems == 2

---------------------------------------------------------------------------
(* numpy helpers *)

Max(a, b) == IF a >= b THEN a ELSE b
Min(a, b) == IF a <= b THEN a ELSE b

Arr(rows, ncols) == [rows |-> rows, ncols |-> ncols]
NRows(a) == Len(a.rows)
\* a[i], i a non-negative python index
Row(a, i) == a.rows[i + 1]
ZeroRow(ncols) == [j \in 1..ncols |-> 0]
\* np.zeros((n, ncols))
Zeros(n, ncols) == Arr([i \in 1..n |-> ZeroRow(ncols)], ncols)
\* np.vstack((a, b))
VStack(a, b) == Arr(a.rows \o b.rows, a.ncols)

\* A slice bound as python resolves it against a length: negative bounds
\* count from the end, and the result is clamped to [0, n].
SliceBound(i, n) == IF i < 0 THEN Max(i + n, 0) ELSE Min(i, n)
\* a[lo:hi]
Slice(a, lo, hi) ==
    LET l == SliceBound(lo, NRows(a))
        h == SliceBound(hi, NRows(a))
    IN Arr(IF l >= h THEN <<>> ELSE SubSeq(a.rows, l + 1, h), a.ncols)
\* a[lo:]
SliceFrom(a, lo) == Slice(a, lo, NRows(a))
\* a[:hi]
SliceTo(a, hi) == Slice(a, 0, hi)
\* a[:, cols], cols a sequence of column indices
Columns(a, cols) ==
    Arr([i \in 1..NRows(a) |-> [j \in 1..Len(cols) |-> a.rows[i][cols[j] + 1]]],
        Len(cols))

\* python's None, and a value that is not None
None == [none |-> TRUE]
Some(v) == [some |-> v]
IsNone(x) == "none" \in DOMAIN x

Ok(v) == [status |-> "ok", value |-> v]
Raise(e) == [status |-> e]
NoRet == [status |-> "none"]

---------------------------------------------------------------------------
(* _get_padded *)

\* `if start < 0 and end >= data.shape[0]`
BothOut(data, start, end) == start < 0 /\ end >= NRows(data)

_get_padded(data, start, end) ==
    IF BothOut(data, start, end) THEN Raise("RuntimeError")
    ELSE IF start < 0
        THEN Ok(VStack(Zeros(-start, data.ncols), SliceTo(data, end)))
    ELSE IF end > NRows(data)
        THEN Ok(VStack(SliceFrom(data, start), Zeros(end - NRows(data), data.ncols)))
    ELSE Ok(Slice(data, start, end))

\* The arrays the padding utility is tried on: n rows of width 2 whose
\* entries are non-zero and differ from row to row.
PaddedData(n) == Arr([i \in 1..n |-> <<10 * i, 10 * i + 1>>], 2)

GpIdle ==
    /\ gp_pc = "idle" /\ gp_data = Arr(<<>>, 0) /\ gp_start = 0 /\ gp_end = 0
    /\ gp_ret = NoRet

GpInit ==
    /\ gp_pc = "ready"
    /\ gp_data \in {PaddedData(n) : n \in 0..MaxLen}
    /\ gp_start \in (-MaxOut)..(MaxLen + MaxOut)
    /\ gp_end \in (-MaxOut)..(MaxLen + MaxOut)
    /\ gp_start < gp_end
    /\ gp_ret = NoRet

GetPadded ==
    /\ gp_pc = "ready"
    /\ gp_ret' = _get_padded(gp_data, gp_start, gp_end)
    /\ gp_pc' = "done"
    /\ UNCHANGED <<gp_data, gp_start, gp_end>>

GpNext == GetPadded /\ UNCHANGED <<we_vars, wl_vars>>

---------------------------------------------------------------------------
(* Exact arithmetic for the float computations: a value is the fraction    *)
(* n/d with d > 0, and d = 0 stands for the NaN that 0.0/0.0 gives.        *)

Q(n, d) == [n |-> n, d |-> d]
IsNaN(q) == q.d = 0
QAdd(p, q) == IF p.d = q.d THEN Q(p.n + q.n, p.d) ELSE Q(p.n * q.d + q.n * p.d, p.d * q.d)
QScale(q, k) == Q(q.n * k, q.d)
\* p / q for q >= 0; 0/0 is NaN (the numerators here are never negative)
QDiv(p, q) == IF q.n = 0 THEN Q(0, 0) ELSE Q(p.n * q.d, p.d * q.n)
QLe(p, q) == p.n * q.d <= q.n * p.d
QLt(p, q) == p.n * q.d < q.n * p.d
\* int(q) for q >= 0
QInt(q) == q.n \div q.d
QOfInt(k) == Q(k, 1)

RECURSIVE Pow(_, _)
\* b ** e for a natural e; numpy gives 0 ** 0 = 1
Pow(b, e) == IF e = 0 THEN 1 ELSE b * Pow(b, e - 1)
\* np.power(q, e)
QPow(q, e) == Q(Pow(q.n, e), Pow(q.d, e))

RECURSIVE QSum(_)
\* np.sum over a sequence of fractions
QSum(s) == IF s = <<>> THEN Q(0, 1) ELSE IF Len(s) = 1 THEN s[1] ELSE QAdd(s[1], QSum(Tail(s)))

SeqMin(s) == CHOOSE x \in {s[i] : i \in 1..Len(s)} : \A i \in 1..Len(s) : x <= s[i]
SeqMax(s) == CHOOSE x \in {s[i] : i \in 1..Len(s)} : \A i \in 1..Len(s) : x >= s[i]

---------------------------------------------------------------------------
(* WaveformExtractor *)

\* __init__: channel => channels in the shank
DepChannels(channels_per_group) ==
    LET live == UNION {{channels_per_group[g][i] : i \in 1..Len(channels_per_group[g])} :
                       g \in DOMAIN channels_per_group}
    IN [c \in live |->
          channels_per_group[CHOOSE g \in DOMAIN channels_per_group :
              \E i \in 1..Len(channels_per_group[g]) : channels_per_group[g][i] = c]]

\* __init__: channel => group
ChannelGroups(channels_per_group) ==
    LET live == UNION {{channels_per_group[g][i] : i \in 1..Len(channels_per_group[g])} :
                       g \in DOMAIN channels_per_group}
    IN [c \in live |->
          CHOOSE g \in DOMAIN channels_per_group :
              \E i \in 1..Len(channels_per_group[g]) : channels_per_group[g][i] = c]

\* component[:, 0] and component[:, 1]
CompS(component) == [i \in 1..Len(component) |-> component[i][1]]
CompCh(component) == [i \in 1..Len(component) |-> component[i][2]]

_component(self, component, n_samples) ==
    LET comp_s == CompS(component)
        comp_ch == CompCh(component)
        channel == comp_ch[1]
    IN IF channel \notin DOMAIN DepChannels(self.channels_per_group)
       THEN Raise("RuntimeError: dead channel")
       ELSE LET s_min == Max(SeqMin(comp_s) - 3, 0)
                s_max == Min(SeqMax(comp_s) + 4, n_samples)
            IN IF ~(s_min < s_max) THEN Raise("AssertionError")
               ELSE Ok([comp_s |-> comp_s, comp_ch |-> comp_ch,
                        s_min |-> s_min, s_max |-> s_max,
                        channels |-> DepChannels(self.channels_per_group)[channel],
                        group |-> ChannelGroups(self.channels_per_group)[channel]])

\* _normalize without the clip
NoClip(self, x) ==
    Q(x - self.thresholds.weak, self.thresholds.strong - self.thresholds.weak)

\* np.clip((x - tw) / (ts - tw), 0, 1) for ts > tw
_normalize(self, x) ==
    LET tw == self.thresholds.weak
        ts == self.thresholds.strong
        q == Q(x - tw, ts - tw)
    IN IF q.n < 0 THEN Q(0, q.d) ELSE IF q.n > q.d THEN Q(q.d, q.d) ELSE q

\* _comp_wave copying the whole window of the filtered trace
DenseWave(data_t, comp) == Slice(data_t, comp.s_min, comp.s_max)

\* zeros, with the filtered value at every (sample, channel) of the component
_comp_wave(data_t, comp) ==
    Arr([r \in 1..(comp.s_max - comp.s_min) |->
           [c \in 1..data_t.ncols |->
              IF \E i \in 1..Len(comp.comp_s) :
                    comp.comp_s[i] - comp.s_min = r - 1 /\ comp.comp_ch[i] = c - 1
              THEN data_t.rows[r + comp.s_min][c]
              ELSE 0]],
        data_t.ncols)

\* np.argmax(wave, axis=0)[c]: the first row holding the column's maximum
ArgMax(wave, c) ==
    CHOOSE r \in 0..(NRows(wave) - 1) :
        /\ \A k \in 0..(NRows(wave) - 1) : wave.rows[k + 1][c + 1] <= wave.rows[r + 1][c + 1]
        /\ \A k \in 0..(r - 1) : wave.rows[k + 1][c + 1] < wave.rows[r + 1][c + 1]

masks(self, data_t, wave, comp) ==
    LET nc == data_t.ncols
        masks_bin == [c \in 0..(nc - 1) |->
                        IF \E i \in 1..Len(comp.comp_ch) : comp.comp_ch[i] = c
                        THEN 1 ELSE 0]
        peaks == [c \in 0..(nc - 1) |-> ArgMax(wave, c) + comp.s_min]
        peaks_values == [c \in 0..(nc - 1) |->
                           data_t.rows[peaks[c] + 1][c + 1] * masks_bin[c]]
        masks_float == [c \in 0..(nc - 1) |-> _normalize(self, peaks_values[c])]
    IN [j \in 1..Len(comp.channels) |-> masks_float[comp.channels[j]]]

spike_sample_aligned(self, wave, comp) ==
    LET cells == {<<r, c>> : r \in 1..NRows(wave), c \in 1..wave.ncols}
        wave_n_p == [rc \in cells |->
                       QPow(_normalize(self, wave.rows[rc[1]][rc[2]]), self.weight_power)]
        \* u = np.arange(s_max - s_min)[:, np.newaxis]
        order == [k \in 1..(NRows(wave) * wave.ncols) |->
                    <<((k - 1) \div wave.ncols) + 1, ((k - 1) % wave.ncols) + 1>>]
        num == QSum([k \in 1..Len(order) |-> QScale(wave_n_p[order[k]], order[k][1] - 1)])
        den == QSum([k \in 1..Len(order) |-> wave_n_p[order[k]]])
        centroid == QDiv(num, den)
    IN IF IsNaN(centroid) THEN centroid ELSE QAdd(centroid, QOfInt(comp.s_min))

\* extract: int(nan) raises ValueError
extract(self, data, s_aligned, channels) ==
    IF IsNaN(s_aligned) THEN Raise("ValueError")
    ELSE LET s == QInt(s_aligned)
             waveform == _get_padded(data, s - self.extract_before - 1,
                                     s + self.extract_after + 2)
         IN IF waveform.status # "ok" THEN waveform
            ELSE Ok(Columns(waveform.value, channels))

\* scipy's interp1d(old_s, waveform, kind='cubic', axis=0) raises ValueError
\* when x and y differ in length or there are fewer than 4 support points
InterpError(n_old, waveform) == n_old # NRows(waveform) \/ n_old < 4

\* align.  The interpolated samples are not computed: the result of f(new_s)
\* is kept as its shape, one row per entry of new_s.
align(self, waveform, s_aligned) ==
    LET s == QInt(s_aligned)
        sb == self.extract_before
        sa == self.extract_after
        n_old == (s + sa + 2) - (s - sb - 1)
        n_new == Max((s + sa) - (s - sb), 0)
    IN IF InterpError(n_old, waveform)
       THEN [interpolated |-> FALSE, shape |-> <<NRows(waveform), waveform.ncols>>,
             value |-> waveform]
       ELSE [interpolated |-> TRUE, shape |-> <<n_new, waveform.ncols>>]

\* __call__.  The value keeps, beside the status and the returned tuple,
\* the locals the call had computed when it ended.
call(self, component, data, data_t) ==
    IF <<NRows(data), data.ncols>> # <<NRows(data_t), data_t.ncols>>
    THEN Raise("AssertionError")
    ELSE LET c == _component(self, component, NRows(data_t)) IN
    IF c.status # "ok" THEN c
    ELSE LET comp == c.value
             wave == _comp_wave(data_t, comp)
             m == masks(self, data_t, wave, comp)
             s_aligned == spike_sample_aligned(self, wave, comp)
             locals == [comp |-> comp, wave |-> wave, masks |-> m,
                        s_aligned |-> s_aligned]
             waveform_unaligned == extract(self, data, s_aligned, comp.channels)
         IN IF waveform_unaligned.status # "ok"
            THEN [status |-> waveform_unaligned.status] @@ locals
            ELSE LET waveform_aligned == align(self, waveform_unaligned.value, s_aligned)
                 IN IF waveform_aligned.shape[2] # Len(m)
                    THEN [status |-> "AssertionError"] @@ locals
                    ELSE [status |-> "ok", group |-> comp.group,
                          waveform_aligned |-> waveform_aligned] @@ locals

\* Channel topologies: one shank with channels 1 and 0; channel 2 of the
\* traces is in no group (dead).
Topologies == {(0 :> <<1, 0>>)}
TraceChannels == {0, 1, 2}
ThresholdPairs == {[weak |-> 0, strong |-> 2], [weak |-> 1, strong |-> 4],
                   [weak |-> -1, strong |-> 1]}
WeightPowers == {0, 1, 2}
\* (extract_before, extract_after)
ExtractWindows == {<<0, 0>>, <<1, 2>>}
\* Filtered traces: sample s of channel c holds a + b * s + c
TraceLevels == {-1, 3}
TraceSlopes == {-2, 1}
FilteredTrace(a, b) ==
    Arr([r \in 1..NSamples |-> [c \in 1..Cardinality(TraceChannels) |->
            a + b * (r - 1) + (c - 1)]], Cardinality(TraceChannels))
\* Raw traces: non-zero samples that differ from place to place
RawTrace ==
    Arr([r \in 1..NSamples |-> [c \in 1..Cardinality(TraceChannels) |->
            100 + 10 * (r - 1) + (c - 1)]], Cardinality(TraceChannels))
Points == {<<s, ch>> : s \in 0..(NSamples - 1), ch \in TraceChannels}
Components == UNION {[1..k -> Points] : k \in 1..MaxComp}

WeIdle ==
    /\ we_pc = "idle" /\ we_self = <<>> /\ we_component = <<>>
    /\ we_data = Arr(<<>>, 0) /\ we_data_t = Arr(<<>>, 0) /\ we_ret = NoRet

WeInit ==
    /\ we_pc = "ready"
    /\ \E cpg \in Topologies, thr \in ThresholdPairs, wp \in WeightPowers,
          w \in ExtractWindows :
          we_self = [extract_before |-> w[1], extract_after |-> w[2],
                     weight_power |-> wp, thresholds |-> thr,
                     channels_per_group |-> cpg]
    /\ we_component \in Components
    /\ we_data = RawTrace
    /\ we_data_t \in {FilteredTrace(a, b) : a \in TraceLevels, b \in TraceSlopes}
    /\ we_ret = NoRet

Evaluate ==
    /\ we_pc = "ready"
    /\ we_ret' = call(we_self, we_component, we_data, we_data_t)
    /\ we_pc' = "done"
    /\ UNCHANGED <<we_self, we_component, we_data, we_data_t>>

WeNext == Evaluate /\ UNCHANGED <<gp_vars, wl_vars>>

---------------------------------------------------------------------------
(* WaveformLoader *)

\* _before_after of an int ([int |-> n]) or of a pair ([pair |-> <<b, a>>])
_before_after(n_samples) ==
    IF "int" \in DOMAIN n_samples
    THEN <<n_samples.int \div 2, n_samples.int - (n_samples.int \div 2)>>
    ELSE n_samples.pair

\* _slice: <<start, stop>> of the slice it returns
_slice(index, n_samples, margin) ==
    LET before == n_samples[1] + margin[1]
        after == n_samples[2] + margin[2]
    IN <<Max(0, index - before), index + after>>

\* utils._pad(arr, n, dir): arr brought to n rows with rows of zeros put
\* before it ('left') or after it ('right')
_pad(arr, n, dir) ==
    IF NRows(arr) >= n THEN arr
    ELSE IF dir = "left" THEN VStack(Zeros(n - NRows(arr), arr.ncols), arr)
    ELSE VStack(arr, Zeros(n - NRows(arr), arr.ncols))

\* the traces setter: the fields it assigns
SetTracesFields(value) ==
    [n_samples_trace |-> NRows(value), n_channels_traces |-> value.ncols,
     traces |-> value]

\* __init__
WaveformLoader(traces, offset, filter, filter_margin, n_samples, channels, scale_factor, dc_offset) ==
    LET ba == _before_after(n_samples)
        fm == _before_after(filter_margin)
        base == [scale_factor |-> scale_factor, dc_offset |-> dc_offset,
                 offset |-> offset, channels |-> channels, filter |-> filter,
                 n_samples_before_after |-> ba,
                 n_samples_waveforms |-> ba[1] + ba[2],
                 filter_margin |-> fm,
                 n_samples_extract |-> ba[1] + ba[2] + fm[1] + fm[2]]
    IN IF IsNone(traces)
       THEN [n_samples_trace |-> 0, traces |-> None] @@ base
       ELSE SetTracesFields(traces) @@ base

\* the property n_channels_waveforms; n_channels_traces is an attribute
\* only once the traces setter ran
n_channels_waveforms(self) ==
    IF ~IsNone(self.channels) THEN Ok(Len(self.channels.some))
    ELSE IF "n_channels_traces" \in DOMAIN self THEN Ok(self.n_channels_traces)
    ELSE Raise("AttributeError")

\* the injected filter: a function from a window to a window of the same
\* shape; "double" doubles every sample
ApplyFilter(filter, chunk) ==
    IF filter = "none" THEN chunk
    ELSE Arr([i \in 1..NRows(chunk) |->
                [j \in 1..chunk.ncols |-> 2 * chunk.rows[i][j]]], chunk.ncols)

\* `if margin_after > 0: waveforms = waveforms[margin_before:-margin_after, :]`
RemoveMargin(waveforms, margin) ==
    IF margin[2] > 0 THEN Slice(waveforms, margin[1], -margin[2]) ELSE waveforms

\* _load_at.  Beside the returned array (value) the result keeps the
\* filtered window the margins are cut from (filtered).
_load_at(self, time) ==
    LET time_o == time - self.offset
        ns == self.n_samples_trace
    IN IF ~(0 <= time_o /\ time_o < ns) THEN Raise("ValueError")
    ELSE LET slice_extract == _slice(time_o, self.n_samples_before_after,
                                     self.filter_margin)
             sliced == Slice(self.traces, slice_extract[1], slice_extract[2])
             chunk == IF slice_extract[1] <= 0
                          THEN _pad(sliced, self.n_samples_extract, "left")
                      ELSE IF slice_extract[2] >= ns - 1
                          THEN _pad(sliced, self.n_samples_extract, "right")
                      ELSE sliced
         IN IF NRows(chunk) # self.n_samples_extract THEN Raise("AssertionError")
            ELSE LET filtered == ApplyFilter(self.filter, chunk)
                     waveforms == RemoveMargin(filtered, self.filter_margin)
                     out == IF ~IsNone(self.channels)
                            THEN Columns(waveforms, self.channels.some)
                            ELSE waveforms
                     nch == n_channels_waveforms(self)
                 IN IF nch.status # "ok" THEN nch
                    ELSE IF <<NRows(out), out.ncols>> #
                                <<self.n_samples_waveforms, nch.value>>
                        THEN Raise("AssertionError")
                    ELSE [status |-> "ok", value |-> out, filtered |-> filtered]

\* `waveforms -= dc_offset` and `waveforms *= scale_factor`, each skipped
\* when the factor is None or 0
DcScale(self, w) ==
    Arr([i \in 1..NRows(w) |-> [j \in 1..w.ncols |->
            LET x == w.rows[i][j]
                y == IF self.dc_offset # 0 THEN x - self.dc_offset ELSE x
            IN IF self.scale_factor # 0 THEN y * self.scale_factor ELSE y]],
        w.ncols)

\* an array of the given shape filled with one value
Full(n, ncols, v) == Arr([i \in 1..n |-> [j \in 1..ncols |-> v]], ncols)

\* what a slot of np.empty may hold when nothing is stored into it
Garbage == {0, 77}

\* __getitem__ for a list of times.  A 3D array is the sequence of its
\* 2D slots.  empty[i] is what np.empty left in slot i.
getitem(self, spikes, empty) ==
    LET nch == n_channels_waveforms(self) IN
    IF nch.status # "ok" THEN nch
    ELSE IF self.n_samples_trace = 0
        THEN Ok([i \in 1..Len(spikes) |-> Zeros(self.n_samples_waveforms, nch.value)])
    ELSE LET loaded == [i \in 1..Len(spikes) |-> _load_at(self, spikes[i])]
         IN IF \E i \in 1..Len(spikes) : loaded[i].status \notin {"ok", "ValueError"}
            THEN Raise((loaded[CHOOSE i \in 1..Len(spikes) :
                            /\ loaded[i].status \notin {"ok", "ValueError"}
                            /\ \A k \in 1..(i - 1) :
                                  loaded[k].status \in {"ok", "ValueError"}]).status)
            ELSE Ok([i \in 1..Len(spikes) |->
                       DcScale(self,
                           IF loaded[i].status = "ok" THEN loaded[i].value
                           ELSE Full(self.n_samples_waveforms, nch.value, empty[i]))])

\* Trace buffers: two channels, non-zero samples that differ from place to
\* place
LoaderTrace(ns) == Arr([i \in 1..ns |-> <<10 * i, 10 * i + 1>>], 2)
LoaderTraces == {LoaderTrace(ns) : ns \in 0..MaxTrace}
\* n_samples: an int, or (before, after)
WindowArgs == {[int |-> 2 * MaxWindow]} \cup
    {[pair |-> <<b, a>>] : b \in 0..MaxWindow, a \in 0..MaxWindow}
\* filter_margin: an int, or (margin_before, margin_after)
MarginArgs == {[int |-> 0], [int |-> 1], [pair |-> <<1, 0>>], [pair |-> <<1, 1>>]}
Offsets == {0, 5}
ChannelArgs == {None, Some(<<1>>)}
Filters == {"none", "double"}
\* (dc_offset, scale_factor), 0 for None
DcScales == {<<0, 0>>, <<1, 2>>}
\* the times a request may name: from one before the buffer to one past
\* its longest extent
Times(self) == (self.offset - 1)..(self.offset + MaxTrace)

WlIdle == wl_self = <<>> /\ wl_call = [op |-> "idle"] /\ wl_ret = NoRet

WlInit ==
    /\ \E traces \in {None} \cup LoaderTraces, offset \in Offsets, filter \in Filters,
          fm \in MarginArgs, n_samples \in WindowArgs, channels \in ChannelArgs,
          ds \in DcScales :
          wl_self = WaveformLoader(traces, offset, filter, fm, n_samples, channels,
                                   ds[2], ds[1])
    /\ wl_call = [op |-> "__init__"]
    /\ wl_ret = NoRet

\* `loader.traces = value`.  The calls below leave the loader as it is, so
\* the setters are taken before a call is recorded.
SetTraces ==
    /\ wl_call.op \in {"__init__", "setter"}
    /\ \E value \in LoaderTraces :
          wl_self' = SetTracesFields(value) @@ wl_self
    /\ wl_call' = [op |-> "setter"]
    /\ UNCHANGED wl_ret

\* `loader.channels = value`
SetChannels ==
    /\ wl_call.op \in {"__init__", "setter"}
    /\ \E value \in ChannelArgs :
          wl_self' = [wl_self EXCEPT !.channels = value]
    /\ wl_call' = [op |-> "setter"]
    /\ UNCHANGED wl_ret

\* `loader._load_at(time)`
LoadAt ==
    /\ wl_call.op \in {"__init__", "setter"}
    /\ \E time \in Times(wl_self) :
          /\ wl_call' = [op |-> "_load_at", time |-> time]
          /\ wl_ret' = _load_at(wl_self, time)
    /\ UNCHANGED wl_self

\* `loader[item]` for a list of times
GetItem ==
    /\ wl_call.op \in {"__init__", "setter"}
    /\ \E n \in 0..MaxItems :
          \E item \in [1..n -> Times(wl_self)], empty \in [1..n -> Garbage] :
              /\ wl_call' = [op |-> "__getitem__", item |-> item]
              /\ wl_ret' = getitem(wl_self, item, empty)
    /\ UNCHANGED wl_self

WlNext ==
    \/ SetTraces /\ UNCHANGED <<gp_vars, we_vars>>
    \/ SetChannels /\ UNCHANGED <<gp_vars, we_vars>>
    \/ LoadAt /\ UNCHANGED <<gp_vars, we_vars>>
    \/ GetItem /\ UNCHANGED <<gp_vars, we_vars>>

---------------------------------------------------------------------------
(* Specifications *)

PaddedInit == GpInit /\ WeIdle /\ WlIdle
ExtractorInit == WeInit /\ GpIdle /\ WlIdle
LoaderInit == WlInit /\ GpIdle /\ WeIdle

SpecPadded == PaddedInit /\ [][GpNext]_vars
SpecExtractor == ExtractorInit /\ [][WeNext]_vars
SpecLoader == LoaderInit /\ [][WlNext]_vars

---------------------------------------------------------------------------
(* Claims about _get_padded *)

\* data[k] when 0 <= k < n and a row of zeros otherwise
RowOrZero(data, k) ==
    IF 0 <= k /\ k < NRows(data) THEN Row(data, k) ELSE ZeroRow(data.ncols)

\* data[start:end] with zeros outside the array bounds
PaddedExpected(data, start, end) ==
    Arr([i \in 1..(end - start) |-> RowOrZero(data, start + i - 1)], data.ncols)

\* C10: whenever at most one of start < 0 and end > n holds, _get_padded
\* returns the end - start rows data[start + i] (zeros outside the array),
\* and it raises only when start < 0 and end > n hold together.
C10_GetPaddedContract ==
    gp_pc = "done" =>
        IF gp_start < 0 /\ gp_end > NRows(gp_data)
        THEN gp_ret.status = "RuntimeError"
        ELSE gp_ret = Ok(PaddedExpected(gp_data, gp_start, gp_end))

---------------------------------------------------------------------------
(* Claims about the WaveformExtractor *)

\* the channels the topology of the extractor knows
LiveChannels == DOMAIN DepChannels(we_self.channels_per_group)
\* the call got past _component, so masks and the aligned time were computed
Resolved == we_pc = "done" /\ "masks" \in DOMAIN we_ret
\* the component touches channel ch
Touched(ch) == \E i \in 1..Len(we_component) : we_component[i][2] = ch
\* the filtered amplitude at the i-th point of the component
CompAmp(i) == we_data_t.rows[we_component[i][1] + 1][we_component[i][2] + 1]
\* the member channels of the group the component's first channel is in
MemberChannels ==
    we_self.channels_per_group[
        CHOOSE g \in DOMAIN we_self.channels_per_group :
            \E i \in 1..Len(we_self.channels_per_group[g]) :
                we_self.channels_per_group[g][i] = we_component[1][2]]

\* C5: a component holding, at any position, a channel that is in no group
\* fails with the dead-channel error.
C5_DeadChannelAnywhereFails ==
    (we_pc = "done" /\ \E i \in 1..Len(we_component) : we_component[i][2] \notin LiveChannels)
        => we_ret.status = "RuntimeError: dead channel"

\* C6: a touched member channel on which no point of the component has a
\* filtered amplitude above weak gets the mask value 0.
C6_WeakPeakMaskZero ==
    Resolved =>
        \A j \in 1..Len(MemberChannels) :
            (/\ Touched(MemberChannels[j])
             /\ \A i \in 1..Len(we_component) :
                    we_component[i][2] = MemberChannels[j]
                        => CompAmp(i) <= we_self.thresholds.weak)
                => we_ret.masks[j].n = 0

\* C7: the mask has one value per member channel of the component's
\* group, each in [0, 1].
C7_MaskShapeAndRange ==
    Resolved =>
        /\ Len(we_ret.masks) = Len(MemberChannels)
        /\ \A j \in 1..Len(we_ret.masks) :
              /\ ~IsNaN(we_ret.masks[j])
              /\ QLe(QOfInt(0), we_ret.masks[j])
              /\ QLe(we_ret.masks[j], QOfInt(1))

\* C7 witness: masks were computed for a component with a point above the
\* strong threshold and a point below the weak one on member channels, so
\* both sides of the clip acted, and a channel got the mask value 1.
C7_Witness ==
    /\ Resolved
    /\ \E i \in 1..Len(we_component) :
          /\ we_component[i][2] \in LiveChannels
          /\ CompAmp(i) > we_self.thresholds.strong
    /\ \E i \in 1..Len(we_component) :
          /\ we_component[i][2] \in LiveChannels
          /\ CompAmp(i) < we_self.thresholds.weak
    /\ \E j \in 1..Len(we_ret.masks) : we_ret.masks[j].n = we_ret.masks[j].d
    /\ \E j \in 1..Len(we_ret.masks) : we_ret.masks[j].n = 0

\* the precondition of C8: weak >= 0 and a point of the component lies
\* strictly above weak
AlignedCase ==
    /\ Resolved
    /\ we_self.thresholds.weak >= 0
    /\ \E i \in 1..Len(we_component) : CompAmp(i) > we_self.thresholds.weak

\* the aligned time is a number between the earliest and the latest sample
\* of the component
AlignedWithinComponent ==
    /\ ~IsNaN(we_ret.s_aligned)
    /\ QLe(QOfInt(SeqMin(CompS(we_component))), we_ret.s_aligned)
    /\ QLe(we_ret.s_aligned, QOfInt(SeqMax(CompS(we_component))))

C9_AlignedWaveformShape ==
    (we_pc = "done" /\ we_ret.status = "ok") =>
        we_ret.waveform_aligned.shape =
            <<we_self.extract_before + we_self.extract_after, Len(we_ret.masks)>>

---------------------------------------------------------------------------
(* Claims about the WaveformLoader *)

\* the time is inside the trace buffer of the loader
ValidTime(time) ==
    /\ 0 <= time - wl_self.offset
    /\ time - wl_self.offset < wl_self.n_samples_trace
\* the number of output channels: the subset's size, or the buffer's width
OutputChannels ==
    IF ~IsNone(wl_self.channels) THEN Len(wl_self.channels.some)
    ELSE wl_self.traces.ncols
Shape(a) == <<NRows(a), a.ncols>>

\* C1: a batch load from a non-empty buffer does not raise, returns one
\* slot of shape (window_length, n_output_channels) per requested time,
\* and the slot of a valid time holds what _load_at returns for it, with
\* the DC offset and the scale applied.
C1_BatchLoadSkipsInvalidTimes ==
    (wl_call.op = "__getitem__" /\ wl_self.n_samples_trace > 0) =>
        /\ wl_ret.status = "ok"
        /\ Len(wl_ret.value) = Len(wl_call.item)
        /\ \A i \in 1..Len(wl_call.item) :
              /\ Shape(wl_ret.value[i]) = <<wl_self.n_samples_waveforms, OutputChannels>>
              /\ ValidTime(wl_call.item[i]) =>
                    /\ _load_at(wl_self, wl_call.item[i]).status = "ok"
                    /\ wl_ret.value[i] =
                          DcScale(wl_self, _load_at(wl_self, wl_call.item[i]).value)

\* C2: without filter, margin and channel subset, _load_at at a valid time
\* returns before + after rows, row j being trace[t - before + j] inside
\* the buffer and zeros outside it.
C2_LoadAtZeroPadsInPlace ==
    (/\ wl_call.op = "_load_at"
     /\ ValidTime(wl_call.time)
     /\ wl_self.filter = "none"
     /\ wl_self.filter_margin = <<0, 0>>
     /\ IsNone(wl_self.channels)) =>
        /\ wl_ret.status = "ok"
        /\ wl_ret.value =
              PaddedExpected(wl_self.traces,
                  wl_call.time - wl_self.offset - wl_self.n_samples_before_after[1],
                  wl_call.time - wl_self.offset + wl_self.n_samples_before_after[2])

\* C3: a batch load from a loader whose buffer is empty or was never set
\* returns zeros of shape (number of times, window_length,
\* n_output_channels), whether or not a channel subset is given.
C3_EmptyBufferGivesZeros ==
    (wl_call.op = "__getitem__" /\ wl_self.n_samples_trace = 0) =>
        /\ wl_ret.status = "ok"
        /\ wl_ret.value =
              [i \in 1..Len(wl_call.item) |->
                  Zeros(wl_self.n_samples_waveforms, OutputChannels)]

\* C4: for every margin pair _load_at at a valid time returns an array of
\* shape (target_window_length, n_output_channels): the filtered window
\* without its margin_before leading and its margin_after trailing rows.
C4_LoadAtDropsMargins ==
    (wl_call.op = "_load_at" /\ ValidTime(wl_call.time)) =>
        /\ wl_ret.status = "ok"
        /\ Shape(wl_ret.value) = <<wl_self.n_samples_waveforms, OutputChannels>>
        /\ LET kept == Arr(SubSeq(wl_ret.filtered.rows, wl_self.filter_margin[1] + 1,
                               NRows(wl_ret.filtered) - wl_self.filter_margin[2]),
                           wl_ret.filtered.ncols)
           IN wl_ret.value = IF IsNone(wl_self.channels) THEN kept
                             ELSE Columns(kept, wl_self.channels.some)

=============================================================================
